---- MODULE Spec2Model ----
(***************************************************************************)
(* A model of package stubmethods: GetStubInfo and its helpers, which      *)
(* deduce an (interface, concrete) pair of types from the syntax path      *)
(* around a "missing method" error.                                        *)
(*                                                                         *)
(* Types (go/types) are records                                            *)
(*     [w |-> wrappers, b |-> base, params |-> ..., variadic |-> ...]      *)
(* where w is the sequence of type constructors applied around the base,   *)
(* outermost first: "alias" (types.Alias), "ptr" (types.Pointer) and       *)
(* "slice" (types.Slice).  The base b names the type inside:               *)
(*   "T"          a defined struct type of package p        types.Named    *)
(*   "I", "J"     defined interface types of package p      types.Named    *)
(*   "error"      the universe interface error, no package  types.Named    *)
(*   "comparable" the universe interface comparable         types.Named    *)
(*   "int"        a basic type                              types.Basic    *)
(*   "ifacelit"   an interface literal                  types.Interface    *)
(*   "tparam"     a type parameter                      types.TypeParam    *)
(*   "func"       a signature with params/variadic      types.Signature    *)
(*   "none"       no type: the expression has no entry in info.Types       *)
(***************************************************************************)
EXTENDS Integers, Sequences, FiniteSets, TLC

VARIABLES fset, path, pos, i, pc, si

vars == <<fset, path, pos, i, pc, si>>

\* ------------------------------------------------------------------ bounds

\* Longest chain of alias/pointer constructors around an operand's base type.
MaxWrap == 2
\* Most operands in one list (call arguments, return operands, right-hand
\* sides, initializers, parameters).
MaxOps == 3
\* Longest syntax path.
MaxPath == 3

\* ------------------------------------------------------------------- types

Ty(w, b) == [w |-> w, b |-> b, params |-> <<>>, variadic |-> FALSE]

Sig(params, variadic) ==
    [w |-> <<>>, b |-> "func", params |-> params, variadic |-> variadic]

\* The absence of a recorded type (a missing info.Types entry, a nil ast.Expr).
NoType == Ty(<<>>, "none")

Alias(t) == [t EXCEPT !.w = <<"alias">> \o @]

Pointer(t) == [t EXCEPT !.w = <<"ptr">> \o @]

Slice(t) == [t EXCEPT !.w = <<"slice">> \o @]

\* ptr.Elem(), slice.Elem(), or an alias's right-hand side.
Elem(t) == [t EXCEPT !.w = Tail(@)]

NamedBases == {"T", "I", "J", "error", "comparable"}

InterfaceBases == {"I", "J", "error", "comparable", "ifacelit"}

\* The dynamic type of a types.Type value.
Kind(t) ==
    IF t.w # <<>> THEN Head(t.w)
    ELSE IF t.b \in NamedBases THEN "named"
    ELSE IF t.b = "func" THEN "signature"
    ELSE IF t.b = "ifacelit" THEN "interface"
    ELSE IF t.b = "tparam" THEN "typeparam"
    ELSE IF t.b = "none" THEN "nil"
    ELSE "basic"

\* named.Obj().Pkg(): "" is the nil package of the universe scope.
Pkg(b) == IF b \in {"T", "I", "J"} THEN "p" ELSE ""

\* named.Obj().Name()
Name(b) == b

\* types.IsInterface(named): the underlying type is an interface.
IsInterface(t) == t.w = <<>> /\ t.b \in InterfaceBases

\* A faulty variant of Unalias: it resolves one alias declaration, not the chain.
UnaliasOnce(t) == IF t.w # <<>> /\ Head(t.w) = "alias" THEN Elem(t) ELSE t

\* types.Unalias: follows a chain of aliases to the first non-alias type.
RECURSIVE Unalias(_)
Unalias(t) == IF t.w # <<>> /\ Head(t.w) = "alias" THEN Unalias(Elem(t)) ELSE t

\* ------------------------------------------------------------------ syntax

\* An expression: its span [Pos, End], its recorded type (tv.Type, NoType
\* when info.Types has no entry), and, when it is an *ast.CallExpr, the
\* recorded type of its Fun and the expressions of its Args.
Expr(p, e, t) ==
    [Pos |-> p, End |-> e, typ |-> t, isCall |-> FALSE, Fun |-> NoType,
     Args |-> <<>>]

CallX(p, e, t, fun, args) ==
    [Pos |-> p, End |-> e, typ |-> t, isCall |-> TRUE, Fun |-> fun,
     Args |-> args]

\* The nil ast.Expr.
NilExpr == Expr(0, 0, NoType)

\* A node of the path.  kind is the node's dynamic type; the other fields
\* are those the package reads:
\*   ValueSpec   Type (nil: hasType = FALSE), Values (ops)
\*   ReturnStmt  Results (ops)
\*   AssignStmt  Lhs, Rhs (ops)
\*   CallExpr    Fun (its recorded type), Args (ops)
\*   FuncDecl    Type.Results (nil: hasResults = FALSE; else the fields of
\*   FuncLit     Results.List, each [names, typ]), and recorded: whether
\*               info.Defs[Name] (FuncDecl) or info.Types[lit] (FuncLit) exists
NodeOf(kind, hasType, declType, ops, lhs, fun, recorded, hasResults, results) ==
    [kind |-> kind, hasType |-> hasType, Type |-> declType, ops |-> ops,
     Lhs |-> lhs, Fun |-> fun, recorded |-> recorded,
     hasResults |-> hasResults, Results |-> results]

ValueSpec(hasType, declType, values) ==
    NodeOf("ValueSpec", hasType, declType, values, <<>>, NoType, FALSE, FALSE, <<>>)

ReturnStmt(results) ==
    NodeOf("ReturnStmt", FALSE, NoType, results, <<>>, NoType, FALSE, FALSE, <<>>)

AssignStmt(lhs, rhs) ==
    NodeOf("AssignStmt", FALSE, NoType, rhs, lhs, NoType, FALSE, FALSE, <<>>)

CallExpr(fun, args) ==
    NodeOf("CallExpr", FALSE, NoType, args, <<>>, fun, FALSE, FALSE, <<>>)

FuncNode(kind, recorded, hasResults, results) ==
    NodeOf(kind, FALSE, NoType, <<>>, <<>>, NoType, recorded, hasResults, results)

OtherNode ==
    NodeOf("Other", FALSE, NoType, <<>>, <<>>, NoType, FALSE, FALSE, <<>>)

\* One field of a result list: `a, b I` has names = 2, an unnamed `I` has
\* names = 0.
Field(names, t) == [names |-> names, Type |-> t]

\* ----------------------------------------------------------------- results

\* The nil StubInfo pointer.
NilStub ==
    [tag |-> "nil", Fset |-> "nil", Interface |-> "nil", Concrete |-> "nil",
     Pointer |-> FALSE]

\* A run-time panic (nil pointer dereference) in place of a result.
Panic ==
    [tag |-> "panic", Fset |-> "nil", Interface |-> "nil", Concrete |-> "nil",
     Pointer |-> FALSE]

\* &StubInfo{...}; a field the composite literal leaves out is "nil".
StubInfo(fs, concrete, pointer, iface) ==
    [tag |-> "stub", Fset |-> fs, Interface |-> iface, Concrete |-> concrete,
     Pointer |-> pointer]

Min(S) == CHOOSE x \in S : \A y \in S : x <= y

\* "Find operand containing pos": the 1-based index of the first expression
\* of list whose span holds p, 0 when there is none.
Containing(list, p) ==
    LET hits == {k \in 1..Len(list) : list[k].Pos <= p /\ p <= list[k].End}
    IN IF hits = {} THEN 0 ELSE Min(hits)

\* ----------------------------------------------------------------- helpers

\* A faulty variant of ifaceObjFromType, without the special case for error.
ifaceObjFromTypeNoError(t) ==
    LET named == Unalias(t)
    IN IF Kind(named) # "named" THEN "nil"
       ELSE IF ~IsInterface(named) THEN "nil"
       ELSE IF Pkg(named.b) = "" THEN "nil"
       ELSE named.b

\* ifaceObjFromType: the TypeName of the named interface type t, or "nil".
ifaceObjFromType(t) ==
    LET named == Unalias(t)
    IN IF Kind(named) # "named" THEN "nil"
       ELSE IF ~IsInterface(named) THEN "nil"
       ELSE IF Pkg(named.b) = "" /\ Name(named.b) # "error" THEN "nil"
       ELSE named.b

\* ifaceType: t is the recorded type of the expression e, NoType when
\* info.Types has no entry for e.
ifaceType(t) == IF Kind(t) = "nil" THEN "nil" ELSE ifaceObjFromType(t)

RECURSIVE StripPointers(_)
StripPointers(t) ==
    LET u == Unalias(t)
    IN IF Kind(u) = "ptr" THEN StripPointers(Elem(u)) ELSE t

\* A faulty variant of concreteType that unwraps every pointer level.
concreteTypeDeep(e) ==
    IF Kind(e.typ) = "nil" THEN [named |-> "nil", pointer |-> FALSE]
    ELSE LET isPtr == Kind(Unalias(e.typ)) = "ptr"
             named == Unalias(StripPointers(e.typ))
         IN IF Kind(named) # "named"
            THEN [named |-> "nil", pointer |-> FALSE]
            ELSE [named |-> named.b, pointer |-> isPtr]

\* concreteType: the named type of expression e and whether e's type is a
\* pointer to it; named = "nil" when e has no named type.
concreteType(e) ==
    IF Kind(e.typ) = "nil" THEN [named |-> "nil", pointer |-> FALSE]
    ELSE LET ptr == Unalias(e.typ)
             isPtr == Kind(ptr) = "ptr"
             typ == IF isPtr THEN Elem(ptr) ELSE e.typ
             named == Unalias(typ)
         IN IF Kind(named) # "named"
            THEN [named |-> "nil", pointer |-> FALSE]
            ELSE [named |-> named.b, pointer |-> isPtr]

\* Whether the switch of enclosingFunction returns at this node.
IsRecordedFunc(node) == node.kind \in {"FuncDecl", "FuncLit"} /\ node.recorded

\* enclosingFunction, as an index into the path: the first node of p that is
\* a FuncDecl with info.Defs[Name] or a FuncLit with info.Types[lit]; 0 is
\* the nil FuncType.
enclosingFunction(p) ==
    LET found == {k \in 1..Len(p) : IsRecordedFunc(p[k])}
    IN IF found = {} THEN 0 ELSE Min(found)

\* A faulty variant of paramType that takes the variadic branch one argument late.
paramTypeLate(sig, argIdx) ==
    LET n == Len(sig.params)
    IN IF sig.variadic /\ argIdx >= n
       THEN LET v == sig.params[n]
            IN IF Kind(v) = "slice" THEN Elem(v) ELSE NoType
       ELSE IF argIdx < n THEN sig.params[argIdx + 1]
       ELSE NoType

\* The parameter type fromCallExpr aligns with the argument of 0-based index
\* argIdx; NoType is the nil types.Type.
paramType(sig, argIdx) ==
    LET n == Len(sig.params)
    IN IF sig.variadic /\ argIdx >= n - 1
       THEN LET v == sig.params[n]
            IN IF Kind(v) = "slice" THEN Elem(v) ELSE NoType
       ELSE IF argIdx < n THEN sig.params[argIdx + 1]
       ELSE NoType

\* --------------------------------------------------------------- analyzers

fromCallExpr(fs, p, call) ==
    LET k == Containing(call.ops, p)
        argIdx == k - 1
    IN IF k = 0 THEN NilStub
       ELSE LET ct == concreteType(call.ops[k])
            IN IF ct.named = "nil" \/ Pkg(ct.named) = "" THEN NilStub
               ELSE IF Kind(call.Fun) = "nil" THEN NilStub
               ELSE LET sig == Unalias(call.Fun)
                    IN IF Kind(sig) # "signature" THEN NilStub
                       ELSE LET pt == paramType(sig, argIdx)
                            IN IF Kind(pt) = "nil" THEN NilStub
                               ELSE LET iface == ifaceObjFromType(pt)
                                    IN IF iface = "nil" THEN NilStub
                                       ELSE StubInfo(fs, ct.named, ct.pointer, iface)

\* fromReturnStmt returns (si, err); err = "" is the nil error.
fromReturnStmt(fs, p, pth, ret) ==
    LET returnIdx == Containing(ret.ops, p)
    IN IF returnIdx = 0
       THEN [si |-> NilStub, err |-> "pos not within return statement bounds"]
       ELSE LET ct == concreteType(ret.ops[returnIdx])
                f == enclosingFunction(pth)
            IN IF ct.named = "nil" \/ Pkg(ct.named) = ""
               THEN [si |-> NilStub, err |-> ""]
               ELSE IF f = 0
               THEN [si |-> NilStub,
                     err |-> "could not find the enclosing function of the return statement"]
               ELSE IF ~pth[f].hasResults
               THEN [si |-> Panic, err |-> "nil pointer dereference"]
               ELSE IF Len(pth[f].Results) # Len(ret.ops)
               THEN [si |-> NilStub, err |-> "operand return statement in result function"]
               ELSE LET iface == ifaceType(pth[f].Results[returnIdx].Type)
                    IN IF iface = "nil" THEN [si |-> NilStub, err |-> ""]
                       ELSE [si |-> StubInfo(fs, ct.named, ct.pointer, iface),
                             err |-> ""]

\* A faulty variant of fromValueSpec that takes the interface from the conversion
\* but keeps the conversion itself as the operand.
fromValueSpecKeepsCall(fs, spec, p) ==
    LET k == Containing(spec.ops, p)
    IN IF k = 0 THEN NilStub
       ELSE LET r == spec.ops[k]
                conv == r.isCall /\ ~spec.hasType /\ Len(r.Args) = 1
                ifaceNode == IF conv THEN r.Fun
                             ELSE IF spec.hasType THEN spec.Type ELSE NoType
                ct == concreteType(r)
            IN IF ct.named = "nil" \/ Pkg(ct.named) = "" THEN NilStub
               ELSE LET ifaceObj == ifaceType(ifaceNode)
                    IN IF ifaceObj = "nil" THEN NilStub
                       ELSE StubInfo("nil", ct.named, ct.pointer, ifaceObj)

\* fromValueSpec: the composite literal it returns sets no Fset.
fromValueSpec(fs, spec, p) ==
    LET k == Containing(spec.ops, p)
    IN IF k = 0 THEN NilStub
       ELSE LET r == spec.ops[k]
                conv == r.isCall /\ ~spec.hasType /\ Len(r.Args) = 1
                ifaceNode == IF conv THEN r.Fun
                             ELSE IF spec.hasType THEN spec.Type ELSE NoType
                rhs == IF conv THEN r.Args[1] ELSE r
                ct == concreteType(rhs)
            IN IF ct.named = "nil" \/ Pkg(ct.named) = "" THEN NilStub
               ELSE LET ifaceObj == ifaceType(ifaceNode)
                    IN IF ifaceObj = "nil" THEN NilStub
                       ELSE StubInfo("nil", ct.named, ct.pointer, ifaceObj)

\* fromAssignStmt: the composite literal it returns sets no Fset.
fromAssignStmt(fs, assign, p) ==
    LET k == Containing(assign.ops, p)
    IN IF k = 0 THEN NilStub
       ELSE IF k > Len(assign.Lhs) THEN NilStub
       ELSE LET ifaceObj == ifaceType(assign.Lhs[k])
                ct == concreteType(assign.ops[k])
            IN IF ifaceObj = "nil" THEN NilStub
               ELSE IF ct.named = "nil" \/ Pkg(ct.named) = "" THEN NilStub
               ELSE StubInfo("nil", ct.named, ct.pointer, ifaceObj)

\* GetStubInfo as a function of its arguments: the loop over path from
\* position k on.
RECURSIVE GetStubInfoFrom(_, _, _, _)
GetStubInfoFrom(fs, pth, p, k) ==
    IF k > Len(pth) THEN NilStub
    ELSE LET n == pth[k]
         IN CASE n.kind = "ValueSpec" -> fromValueSpec(fs, n, p)
              [] n.kind = "ReturnStmt" -> fromReturnStmt(fs, p, pth, n).si
              [] n.kind = "AssignStmt" -> fromAssignStmt(fs, n, p)
              [] n.kind = "CallExpr" ->
                    LET r == fromCallExpr(fs, p, n)
                    IN IF r # NilStub THEN r
                       ELSE GetStubInfoFrom(fs, pth, p, k + 1)
              [] OTHER -> GetStubInfoFrom(fs, pth, p, k + 1)

GetStubInfo(fs, pth, p) == GetStubInfoFrom(fs, pth, p, 1)

\* ------------------------------------------------------------------ inputs

SeqsUpTo(S, n) == UNION {[1..m -> S] : m \in 0..n}

\* Chains of alias and pointer constructors.
Wraps == SeqsUpTo({"alias", "ptr"}, MaxWrap)

\* Chains of alias declarations, and one pointer.
DeclWraps == SeqsUpTo({"alias"}, MaxWrap) \cup {<<"ptr">>}

\* Types of the operand under the position.
OperandTypes ==
    {Ty(w, b) : w \in Wraps, b \in {"T", "I", "error", "int", "tparam"}}
        \cup {NoType}

\* Types on the declared side: a declaration's type, a left-hand side, a
\* parameter, a result.
DeclTypes ==
    {Ty(w, b) : w \in DeclWraps,
                b \in {"I", "error", "comparable", "T", "ifacelit", "int"}}
        \cup {NoType}

TypT == Ty(<<>>, "T")
TypI == Ty(<<>>, "I")
TypJ == Ty(<<>>, "J")

\* A list of n expressions `a, b, c`, each one token long: expression j
\* spans [2j-1, 2j].  Expression k has type c, the others type T.
Operands(n, k, c) == [j \in 1..n |-> Expr(2 * j - 1, 2 * j, IF j = k THEN c ELSE TypT)]

Positions == 0..(2 * MaxOps + 1)

\* One analyzer, one operand, every operand type against every declared type.
TypePaths(c, d) ==
    { <<ValueSpec(TRUE, d, Operands(1, 1, c))>>,
      \* var _ = d(v), the position in v: the conversion is on the path
      <<CallExpr(d, <<Expr(2, 3, c)>>),
        ValueSpec(FALSE, NoType, <<CallX(1, 4, d, d, <<Expr(2, 3, c)>>)>>)>>,
      \* var _ = d(v), reached without the conversion on the path
      <<ValueSpec(FALSE, NoType, <<CallX(1, 4, d, d, <<Expr(2, 3, c)>>)>>)>>,
      \* var _ d = g(x), g of type func(int) c
      <<ValueSpec(TRUE, d,
          <<CallX(1, 4, c, Sig(<<Ty(<<>>, "int")>>, FALSE), <<Expr(2, 3, TypT)>>)>>)>>,
      \* var _ = g(x, y)
      <<ValueSpec(FALSE, NoType,
          <<CallX(1, 6, c, Sig(<<Ty(<<>>, "int"), Ty(<<>>, "int")>>, FALSE),
                  <<Expr(2, 3, TypT), Expr(4, 5, TypT)>>)>>)>>,
      \* var _ = v
      <<ValueSpec(FALSE, NoType, Operands(1, 1, c))>>,
      <<AssignStmt(<<d>>, Operands(1, 1, c))>>,
      <<CallExpr(Sig(<<d>>, FALSE), Operands(1, 1, c))>>,
      <<CallExpr(Alias(Sig(<<TypJ, Slice(d)>>, TRUE)), Operands(2, 2, c))>>,
      <<ReturnStmt(Operands(1, 1, c)),
        FuncNode("FuncDecl", TRUE, TRUE, <<Field(0, d)>>)>> }

TypeInputs(p, q) ==
    \E c \in OperandTypes, d \in DeclTypes :
        p \in TypePaths(c, d) /\ q \in 2..4

\* Calls: every signature over I, J, T with at most MaxOps parameters, the
\* last one [](elem) when variadic, against one to MaxOps arguments.
ParamLists == SeqsUpTo({TypI, TypJ, TypT}, MaxOps)

Signatures ==
    {Sig(ps, FALSE) : ps \in ParamLists}
        \cup {Sig([ps EXCEPT ![Len(ps)] = Slice(@)], TRUE) :
                ps \in ParamLists \ {<<>>}}

CallInputs(p, q) ==
    \E f \in Signatures \cup {TypI, NoType}, n \in 1..MaxOps :
        p = <<CallExpr(f, Operands(n, 0, TypT))>> /\ q \in Positions

\* Result lists declaring at most MaxOps results, in fields of one type each.
RECURSIVE NumResults(_)
NumResults(fl) ==
    IF fl = <<>> THEN 0
    ELSE (IF Head(fl).names = 0 THEN 1 ELSE Head(fl).names) + NumResults(Tail(fl))

FieldLists ==
    {fl \in SeqsUpTo({Field(m, t) : m \in 0..MaxOps, t \in {TypI, TypJ}}, MaxOps) :
        NumResults(fl) <= MaxOps}

Functions ==
    {FuncNode(kind, TRUE, TRUE, fl) : kind \in {"FuncDecl", "FuncLit"}, fl \in FieldLists}
        \cup {FuncNode(kind, TRUE, FALSE, <<>>) : kind \in {"FuncDecl", "FuncLit"}}
        \cup {FuncNode(kind, FALSE, TRUE, <<Field(0, TypI)>>) : kind \in {"FuncDecl", "FuncLit"}}

\* Function literals inside a return operand.
InnerLits ==
    {FuncNode("FuncLit", TRUE, FALSE, <<>>),
     FuncNode("FuncLit", TRUE, TRUE, <<Field(0, TypJ)>>)}

ReturnInputs(p, q) ==
    \E pre \in {<<>>} \cup {<<l>> : l \in InnerLits},
       n \in 1..MaxOps,
       post \in {<<>>} \cup {<<f>> : f \in Functions} :
        p = pre \o <<ReturnStmt(Operands(n, 0, TypT))>> \o post /\ q \in Positions

\* Paths of every shape over a few nodes of each kind.
PathNodes ==
    {ValueSpec(TRUE, TypI, Operands(1, 0, TypT)),
     ValueSpec(TRUE, TypT, Operands(1, 0, TypT)),
     AssignStmt(<<TypI>>, Operands(1, 0, TypT)),
     AssignStmt(<<TypT>>, Operands(1, 0, TypT)),
     ReturnStmt(Operands(1, 0, TypT)),
     CallExpr(Sig(<<TypJ>>, FALSE), Operands(1, 0, TypT)),
     CallExpr(TypI, Operands(1, 0, TypT)),
     FuncNode("FuncDecl", TRUE, TRUE, <<Field(0, TypI)>>),
     FuncNode("FuncLit", TRUE, FALSE, <<>>),
     OtherNode}

PathInputs(p, q) == p \in SeqsUpTo(PathNodes, MaxPath) /\ q \in 0..3

\* ----------------------------------------------------------- state machine

FileSets == {"fset"}

Init ==
    /\ fset \in FileSets
    /\ \/ TypeInputs(path, pos)
       \/ CallInputs(path, pos)
       \/ ReturnInputs(path, pos)
       \/ PathInputs(path, pos)
    /\ i = 1
    /\ pc = "loop"
    /\ si = NilStub

AtNode(kind) == pc = "loop" /\ i <= Len(path) /\ path[i].kind = kind

Return(r) == si' = r /\ pc' = "done" /\ UNCHANGED <<fset, path, pos, i>>

Continue == i' = i + 1 /\ UNCHANGED <<fset, path, pos, pc, si>>

CaseValueSpec == AtNode("ValueSpec") /\ Return(fromValueSpec(fset, path[i], pos))

CaseReturnStmt ==
    AtNode("ReturnStmt") /\ Return(fromReturnStmt(fset, pos, path, path[i]).si)

CaseAssignStmt == AtNode("AssignStmt") /\ Return(fromAssignStmt(fset, path[i], pos))

\* A faulty variant of CaseCallExpr that returns the call analyzer's nil as well.
CaseCallExprReturns ==
    AtNode("CallExpr") /\ Return(fromCallExpr(fset, pos, path[i]))

CaseCallExpr ==
    /\ AtNode("CallExpr")
    /\ LET r == fromCallExpr(fset, pos, path[i])
       IN \/ r # NilStub /\ Return(r)
          \/ r = NilStub /\ Continue

CaseDefault ==
    /\ pc = "loop" /\ i <= Len(path)
    /\ path[i].kind \notin {"ValueSpec", "ReturnStmt", "AssignStmt", "CallExpr"}
    /\ Continue

LoopEnd == pc = "loop" /\ i > Len(path) /\ Return(NilStub)

Next ==
    \/ CaseValueSpec
    \/ CaseReturnStmt
    \/ CaseAssignStmt
    \/ CaseCallExpr
    \/ CaseDefault
    \/ LoopEnd

Spec == Init /\ [][Next]_vars

\* ------------------------------------------------------------- definitions
\* used to state the properties

\* The type t with every alias declaration resolved.
NoAliases(t) == [t EXCEPT !.w = SelectSeq(@, LAMBDA x : x # "alias")]

\* What the specification expects of an operand of type t: T for T and *T
\* (through aliases), nothing for any other type.
ExpectedConcrete(t) ==
    LET u == NoAliases(t)
    IN IF u.b \in NamedBases /\ u.w = <<>>
       THEN [named |-> u.b, pointer |-> FALSE]
       ELSE IF u.b \in NamedBases /\ u.w = <<"ptr">>
       THEN [named |-> u.b, pointer |-> TRUE]
       ELSE [named |-> "nil", pointer |-> FALSE]

\* What the specification expects of a declared type t: the named interface
\* it denotes, which has a package or is error.
ExpectedIface(t) ==
    LET u == NoAliases(t)
    IN IF /\ u.w = <<>>
          /\ u.b \in NamedBases
          /\ u.b \in InterfaceBases
          /\ (Pkg(u.b) # "" \/ u.b = "error")
       THEN u.b ELSE "nil"

AnalyzerKinds == {"ValueSpec", "ReturnStmt", "AssignStmt", "CallExpr"}

\* The expression of node n whose span holds p: NilExpr when there is none.
Matched(n, p) ==
    LET k == Containing(n.ops, p) IN IF k = 0 THEN NilExpr ELSE n.ops[k]

\* The operand a node's analyzer takes as the concrete value: the matched
\* expression, or the argument of the conversion in `var _ = I(v)`.
IsConversionDecl(n, p) ==
    /\ n.kind = "ValueSpec" /\ ~n.hasType
    /\ Matched(n, p).isCall /\ Len(Matched(n, p).Args) = 1

Operand(n, p) ==
    IF IsConversionDecl(n, p) THEN Matched(n, p).Args[1] ELSE Matched(n, p)

\* The outcome of the analyzer of node k of the path.
Outcome(k) ==
    CASE path[k].kind = "ValueSpec" -> fromValueSpec(fset, path[k], pos)
      [] path[k].kind = "ReturnStmt" -> fromReturnStmt(fset, pos, path, path[k]).si
      [] path[k].kind = "AssignStmt" -> fromAssignStmt(fset, path[k], pos)
      [] path[k].kind = "CallExpr" -> fromCallExpr(fset, pos, path[k])
      [] OTHER -> NilStub

\* Node k ends the dispatcher's walk.
Qualifies(k) ==
    \/ path[k].kind \in {"ValueSpec", "ReturnStmt", "AssignStmt"}
    \/ path[k].kind = "CallExpr" /\ Outcome(k) # NilStub

\* The declared results of a function, one type per result: `a, b I` is I, I.
RECURSIVE Declared(_)
Declared(fl) ==
    IF fl = <<>> THEN <<>>
    ELSE [j \in 1..(IF Head(fl).names = 0 THEN 1 ELSE Head(fl).names) |-> Head(fl).Type]
            \o Declared(Tail(fl))

\* The function enclosing node k of the path: the first function declaration
\* or literal with recorded type information outward of k; 0 when none.
EnclosingOf(k) ==
    LET outer == {j \in (k + 1)..Len(path) : IsRecordedFunc(path[j])}
    IN IF outer = {} THEN 0 ELSE Min(outer)

\* -------------------------------------------------------------- properties

\* C1: a position inside operand k of a return statement whose type is T or
\* *T, in a function that declares as many results as the statement has
\* operands and whose result k is a named interface I, yields a result with
\* Interface = I and Concrete = T, however the results are grouped into
\* fields.  (Stated for a return statement at the head of the path, where
\* the function the analyzer consults is the one enclosing the statement.)
C1_ReturnResolves ==
    (pc = "done" /\ Len(path) >= 1 /\ path[1].kind = "ReturnStmt") =>
        LET ret == path[1]
            k == Containing(ret.ops, pos)
            f == EnclosingOf(1)
            want == ExpectedConcrete(Matched(ret, pos).typ)
            results == Declared(path[f].Results)
        IN (/\ k # 0
            /\ want.named # "nil" /\ Pkg(want.named) # ""
            /\ f # 0 /\ path[f].hasResults
            /\ Len(results) = Len(ret.ops)
            /\ ExpectedIface(results[k]) # "nil")
           => /\ si.tag = "stub"
              /\ si.Interface = ExpectedIface(results[k])
              /\ si.Concrete = want.named

\* C2: the dispatcher returns the outcome of the first node of the path that
\* is a ValueSpec, a ReturnStmt, an AssignStmt, or a CallExpr whose analyzer
\* succeeded; it skips every other node; with no such node it returns nil.
C2_FirstQualifyingNode ==
    LET Q == {k \in 1..Len(path) : Qualifies(k)}
    IN /\ pc = "done" => si = (IF Q = {} THEN NilStub ELSE Outcome(Min(Q)))
       /\ pc = "loop" => \A k \in 1..(i - 1) : k \notin Q

\* C2's case: a call that fails to resolve inside an assignment that resolves.
C2_Witness ==
    /\ pc = "done" /\ Len(path) >= 2
    /\ path[1].kind = "CallExpr" /\ Outcome(1) = NilStub
    /\ path[2].kind = "AssignStmt" /\ Outcome(2).tag = "stub"
    /\ si = Outcome(2)

\* C3: a return statement whose operand count differs from the number of
\* result fields of the function consulted (none when the function declares
\* no results) ends in the arity error and a nil result, never in a panic.
C3_ArityMismatchIsAnError ==
    /\ pc = "done" => si.tag # "panic"
    /\ (pc = "done" /\ Len(path) >= 1 /\ path[1].kind = "ReturnStmt") =>
          LET ret == path[1]
              f == enclosingFunction(path)
              want == concreteType(Matched(ret, pos))
              declared == IF path[f].hasResults THEN Len(path[f].Results) ELSE 0
          IN (/\ Containing(ret.ops, pos) # 0
              /\ want.named # "nil" /\ Pkg(want.named) # ""
              /\ f # 0
              /\ declared # Len(ret.ops))
             => /\ si = NilStub
                /\ fromReturnStmt(fset, pos, path, ret).err
                      = "operand return statement in result function"

\* The parameter type the specification aligns with argument index a
\* (0-based) of a call of signature sig; NoType when there is none.
ExpectedParam(sig, a) ==
    LET n == Len(sig.params)
    IN IF sig.variadic /\ a + 1 >= n THEN Elem(sig.params[n])
       ELSE IF a + 1 <= n THEN sig.params[a + 1]
       ELSE NoType

\* C4: a call whose matched argument has index a resolves against the
\* element type of the variadic parameter when the signature is variadic and
\* a is at or past the last parameter, against parameter a when there is
\* one, and fails otherwise.
C4_ParameterAlignment ==
    (pc = "done" /\ Len(path) >= 1 /\ path[1].kind = "CallExpr") =>
        LET call == path[1]
            k == Containing(call.ops, pos)
            sig == NoAliases(call.Fun)
            want == ExpectedConcrete(Matched(call, pos).typ)
            param == ExpectedParam(sig, k - 1)
        IN (/\ k # 0
            /\ want.named # "nil" /\ Pkg(want.named) # ""
            /\ sig.b = "func" /\ sig.w = <<>>)
           => IF ExpectedIface(param) # "nil"
              THEN /\ i = 1
                   /\ si = StubInfo(fset, want.named, want.pointer, ExpectedIface(param))
              ELSE fromCallExpr(fset, pos, call) = NilStub /\ i > 1

\* C4's case: f(x T, ys ...I) called as f(a, b, c) with the position in c.
C4_Witness ==
    /\ pc = "done" /\ Len(path) = 1 /\ path[1].kind = "CallExpr"
    /\ path[1].Fun = Sig(<<TypT, Slice(TypI)>>, TRUE)
    /\ Len(path[1].ops) = 3 /\ Containing(path[1].ops, pos) = 3
    /\ si.tag = "stub" /\ si.Interface = "I" /\ si.Concrete = "T"

\* C5: the operand's type resolves to (T, true) when it is *T, to (T, false)
\* when it is T, T named, through aliases; any other type, **T included,
\* does not resolve, and then the analyzer produces no result.
C5_OnePointerLevel ==
    (Len(path) >= 1 /\ path[1].kind \in AnalyzerKinds
        /\ Containing(path[1].ops, pos) # 0) =>
        LET e == Operand(path[1], pos)
            want == ExpectedConcrete(e.typ)
        IN /\ concreteType(e) = want
           /\ (pc = "done" /\ i = 1 /\ si.tag = "stub") =>
                 /\ want.named # "nil"
                 /\ si.Concrete = want.named
                 /\ si.Pointer = want.pointer
           /\ want.named = "nil" => Outcome(1).tag # "stub"

\* C5's case: an operand of type **T in a declaration `var _ I = v`.
C5_Witness ==
    /\ pc = "done" /\ Len(path) = 1 /\ path[1].kind = "ValueSpec"
    /\ path[1].Type = TypI
    /\ Containing(path[1].ops, pos) # 0
    /\ Operand(path[1], pos).typ = Ty(<<"ptr", "ptr">>, "T")
    /\ si = NilStub

\* A type, an expression, a node with every alias declaration resolved.
NoAliasesIn(t) == [NoAliases(t) EXCEPT !.params = [k \in DOMAIN @ |-> NoAliases(@[k])]]

NoAliasExpr(e) ==
    [e EXCEPT !.typ = NoAliasesIn(@), !.Fun = NoAliasesIn(@),
              !.Args = [k \in DOMAIN @ |-> [@[k] EXCEPT !.typ = NoAliasesIn(@)]]]

NoAliasNode(n) ==
    [n EXCEPT !.Type = NoAliasesIn(@),
              !.Fun = NoAliasesIn(@),
              !.ops = [k \in DOMAIN @ |-> NoAliasExpr(@[k])],
              !.Lhs = [k \in DOMAIN @ |-> NoAliasesIn(@[k])],
              !.Results = [k \in DOMAIN @ |-> [@[k] EXCEPT !.Type = NoAliasesIn(@)]]]

Unaliased(pth) == [k \in 1..Len(pth) |-> NoAliasNode(pth[k])]

\* C6: the result for a program is the result for the same program with
\* every alias, or chain of aliases, replaced by the type it denotes.
C6_AliasTransparency ==
    pc = "done" => si = GetStubInfo(fset, Unaliased(path), pos)

\* C6's case: `x = v` with x of a type that is an alias of an alias of I and
\* v of a type that is an alias of *T.
C6_Witness ==
    /\ pc = "done" /\ Len(path) = 1 /\ path[1].kind = "AssignStmt"
    /\ path[1].Lhs = <<Ty(<<"alias", "alias">>, "I")>>
    /\ Matched(path[1], pos).typ = Ty(<<"alias", "ptr">>, "T")
    /\ si.tag = "stub" /\ si.Interface = "I" /\ si.Concrete = "T" /\ si.Pointer

\* Two results name the same types, or are both nil.
SameTypes(a, b) ==
    /\ a.tag = b.tag /\ a.Interface = b.Interface
    /\ a.Concrete = b.Concrete /\ a.Pointer = b.Pointer

\* `var _ I = v` for the declaration `var _ = I(v)` at node k of the path:
\* the conversion is no longer on the path.
TypedDecl(n, p) ==
    LET k == Containing(n.ops, p)
        r == n.ops[k]
    IN ValueSpec(TRUE, r.Fun,
                 [n.ops EXCEPT ![k] = Expr(r.Pos, r.End, r.Args[1].typ)])

TypedPath(k) ==
    LET r == Matched(path[k], pos)
        onPath == /\ k > 1 /\ path[k - 1].kind = "CallExpr"
                  /\ path[k - 1].Fun = r.Fun /\ path[k - 1].ops = r.Args
    IN SubSeq(path, 1, IF onPath THEN k - 2 ELSE k - 1)
         \o <<TypedDecl(path[k], pos)>>
         \o SubSeq(path, k + 1, Len(path))

\* C7: a declaration without a type whose initializer is the one-argument
\* call I(v) gives the result of the declaration of type I with initializer
\* v; a declaration with a type, or a call of another number of arguments,
\* is resolved with the call itself as the operand.
C7_ConversionDeclaration ==
    (pc = "done" /\ i <= Len(path) /\ path[i].kind = "ValueSpec"
        /\ Matched(path[i], pos).isCall) =>
        LET spec == path[i]
            call == Matched(spec, pos)
            want == ExpectedConcrete(call.typ)
        IN IF ~spec.hasType /\ Len(call.Args) = 1
           THEN SameTypes(si, GetStubInfo(fset, TypedPath(i), pos))
           ELSE IF /\ spec.hasType /\ want.named # "nil" /\ Pkg(want.named) # ""
                   /\ ExpectedIface(spec.Type) # "nil"
           THEN SameTypes(si, StubInfo(fset, want.named, want.pointer,
                                       ExpectedIface(spec.Type)))
           ELSE si = NilStub

\* C7's case: var _ = I(v) with v of type *T and the position in v.
C7_Witness ==
    /\ pc = "done" /\ Len(path) = 2 /\ i = 2
    /\ path[1].kind = "CallExpr"
    /\ IsConversionDecl(path[2], pos)
    /\ Matched(path[2], pos).Fun = TypI
    /\ Operand(path[2], pos).typ = Ty(<<"ptr">>, "T")
    /\ si.tag = "stub" /\ si.Interface = "I" /\ si.Concrete = "T" /\ si.Pointer

\* The types node n puts on the declared side.
DeclaredSide(n) ==
    {n.Type, n.Fun} \cup {n.Lhs[k] : k \in DOMAIN n.Lhs}
        \cup {n.Results[k].Type : k \in DOMAIN n.Results}
        \cup {n.ops[k].Fun : k \in DOMAIN n.ops}
        \cup {Unalias(n.Fun).params[k] : k \in DOMAIN Unalias(n.Fun).params}
        \cup {n.ops[k].typ : k \in DOMAIN n.ops}

\* C8: a type resolves as an interface exactly when, through aliases, it is
\* a named type whose underlying type is an interface and which has a
\* package or is named error; the result's Interface is that type.
C8_NamedInterfacesOnly ==
    /\ \A k \in 1..Len(path) : \A t \in DeclaredSide(path[k]) :
          /\ ifaceObjFromType(t) = ExpectedIface(t)
          /\ ifaceType(t) = ExpectedIface(t)
    /\ (pc = "done" /\ i = 1 /\ Len(path) >= 1 /\ path[1].kind = "AssignStmt"
          /\ Containing(path[1].ops, pos) = 1
          /\ ExpectedConcrete(Matched(path[1], pos).typ).named = "T") =>
          /\ si.tag = "stub" <=> ExpectedIface(path[1].Lhs[1]) # "nil"
          /\ si.Interface = ExpectedIface(path[1].Lhs[1])

\* C8's case: `x = v` with x of type error.
C8_Witness ==
    /\ pc = "done" /\ Len(path) = 1 /\ path[1].kind = "AssignStmt"
    /\ path[1].Lhs = <<Ty(<<>>, "error")>>
    /\ si.tag = "stub" /\ si.Interface = "error" /\ si.Concrete = "T"

C10_FunctionEnclosesReturn ==
    (/\ pc = "done" /\ i <= Len(path) /\ path[i].kind = "ReturnStmt"
     /\ Containing(path[i].ops, pos) # 0
     /\ ExpectedConcrete(Matched(path[i], pos).typ).named = "T"
     /\ EnclosingOf(i) # 0) =>
        enclosingFunction(path) = EnclosingOf(i)

====
